---- MODULE Spec2Model ----
(***************************************************************************)
(* DermaCheck-AI: the App component's analysis / history state machine     *)
(* (src/App.tsx), the response parser of ResultDisplay                     *)
(* (src/unnamed/part_003), storageService                                  *)
(* (src/services/storageService.ts) and the camera and dictation of        *)
(* ImageUploader (src/components/ImageUploader.tsx).                       *)
(*                                                                         *)
(* The specifications of the module share its variables:                   *)
(*   Spec         the App component: mount, image selection, analysis      *)
(*                requests in flight, history retention and its persisted  *)
(*                copy;                                                    *)
(*   CorruptSpec  the App component started on absent or corrupted         *)
(*                persisted values;                                        *)
(*   ParseSpec    the parser: a response text is assembled from fragments  *)
(*                and the parse of ResultDisplay's useMemo is applied;     *)
(*   ShareSpec    share links copied from a result and opened again;       *)
(*   StorageSpec  storageService's lesion profiles and analysis history;   *)
(*   NotesSpec    the patient notes and their dictation;                   *)
(*   CameraSpec   the camera view and the streams it obtains.              *)
(***************************************************************************)
EXTENDS Integers, Sequences, FiniteSets, TLC

VARIABLES
    \* ---- App component (React state, as of the latest render) ----
    history,        \* useState<HistoryItem[]>: newest first
    historyIsArray, \* FALSE when setHistory was given a JSON value that is not an array
    historyLimit,   \* useState(10)
    analysis,       \* useState<AnalysisState>: [status, result, error]
    selectedImage,  \* useState<{base64,mimeType}|null>
    mounted,        \* has the mount effect run
    \* ---- environment of the App component ----
    lsHistory,      \* localStorage[HISTORY_STORAGE_KEY]
    lsLimit,        \* localStorage[HISTORY_LIMIT_KEY]
    pending,        \* analyzeImage calls in flight, each with the closure it was started in
    now,            \* Date.now()
    started,        \* number of analyzeImage calls made so far
    deletes,        \* number of deleteHistoryItem calls made so far
    deletedIds,     \* the ids deleteHistoryItem has been called with
    limitChanges,   \* number of handleLimitChange calls made so far
    saved,          \* every HistoryItem ever created (including those loaded from storage)
    lastOp,         \* the handler that ran last, with its inputs
    clipboard,      \* navigator.clipboard: the share link copied last
    shareParam,     \* the 'share' parameter of window.location.search
    \* ---- ResultDisplay parser ----
    text,           \* result.text, as a sequence of characters
    parsed,         \* the value returned by the parse useMemo (and the derived flag)
    pphase,         \* "input" while the text is assembled, "parsed" afterwards
    metrics,        \* storageService: parseMetrics(result.text) of saveAnalysis
    \* ---- storageService ----
    svcMoles,       \* localStorage[MOLES_KEY]
    svcHistory,     \* localStorage[HISTORY_KEY]
    svcNow,         \* Date.now()
    svcOp,          \* the function that ran last, with its inputs
    \* ---- ImageUploader: patient notes and dictation ----
    notesValue,     \* the notesValue prop (the parent's patientNotes state)
    notesValueRef,  \* notesValueRef.current
    baseNotesRef,   \* baseNotesRef.current
    isRecording,    \* useState(false)
    recognition,    \* recognitionRef.current and the session of that recognizer
    recTimers,      \* setTimeout callbacks of handleReRecord not yet run, with their closure
    recStarting,    \* startRecording calls awaiting getUserMedia({audio}), with their closure
    noteOp,         \* the notes handler that ran last
    \* ---- ImageUploader: camera ----
    isCameraOpen,   \* useState(false)
    resolution,     \* useState('FHD')
    streamRef,      \* streamRef.current: 0 for null, else the stream's number
    liveStreams,    \* streams obtained whose tracks have not been stopped
    obtained,       \* number of streams getUserMedia has handed out
    camPending,     \* getUserMedia({video}) calls not yet settled
    camStarts,      \* number of startCamera calls made so far
    camOp           \* the camera handler that ran last

appVars == <<history, historyIsArray, historyLimit, analysis, selectedImage, mounted,
             lsHistory, lsLimit, pending, now, started, deletes, limitChanges, saved,
             lastOp, clipboard, shareParam, deletedIds>>
parseVars == <<text, parsed, pphase, metrics>>
svcVars == <<svcMoles, svcHistory, svcNow, svcOp>>
notesVars == <<notesValue, notesValueRef, baseNotesRef, isRecording, recognition,
               recTimers, recStarting, noteOp>>
camVars == <<isCameraOpen, resolution, streamRef, liveStreams, obtained, camPending,
             camStarts, camOp>>
extVars == <<svcVars, notesVars, camVars>>
vars == <<appVars, parseVars, extVars>>

(***************************************************************************)
(* Bounds                                                                  *)
(***************************************************************************)
MaxStored == 5      \* records a previous session left in localStorage
MaxAnalyses == 2    \* analyzeImage calls per behaviour
MaxDeletes == 1     \* deleteHistoryItem calls per behaviour
MaxLimitChanges == 1 \* handleLimitChange calls per behaviour
MaxTicks == 1       \* clock advances per behaviour
MaxPieces == 3      \* fragments appended to a response text

(***************************************************************************)
(* Generic helpers                                                         *)
(***************************************************************************)
Min(a, b) == IF a < b THEN a ELSE b
Max(a, b) == IF a > b THEN a ELSE b

\* the number NaN (parseInt of a string that holds no number); every
\* comparison with it is false
NaN == 0 - 1

\* Array.prototype.slice(0, end): a NaN end counts as 0
Slice0(s, end) ==
    LET e == IF end = NaN THEN 0
             ELSE IF end < 0 THEN Max(Len(s) + end, 0) ELSE Min(end, Len(s))
    IN  SubSeq(s, 1, e)

\* history.filter(item => item.id !== id)
RECURSIVE FilterOutId(_, _)
FilterOutId(s, id) ==
    IF s = <<>> THEN <<>>
    ELSE IF Head(s).id # id THEN <<Head(s)>> \o FilterOutId(Tail(s), id)
         ELSE FilterOutId(Tail(s), id)

Range(s) == {s[i] : i \in 1..Len(s)}

(***************************************************************************)
(* App component                                                           *)
(***************************************************************************)
NoImage == "null"
Image == "img"
NoResult == 0

DefaultLimit == 10
LimitOptions == {5, 10, 15, 20}

Absent == [kind |-> "absent"]
Stored(v) == [kind |-> "value", v |-> v]
\* stored strings that do not hold what the app wrote
Corrupted(why) == [kind |-> "corrupt", why |-> why]
CorruptJson == Corrupted("not JSON")          \* JSON.parse throws
NonArrayJson == Corrupted("not an array")     \* JSON.parse returns an object such as {}
NotANumber == Corrupted("not a number")       \* parseInt returns NaN

NoClipboard == [kind |-> "none"]
NoShare == [kind |-> "none"]

AnalysisIdle == [status |-> "idle", result |-> NoResult, error |-> FALSE]
AnalysisAnalyzing == [status |-> "analyzing", result |-> NoResult, error |-> FALSE]
AnalysisSuccess(r) == [status |-> "success", result |-> r, error |-> FALSE]
\* AnalysisError by a catch branch that leaves the progress state in place
AnalysisErrorStillAnalyzing == AnalysisAnalyzing

AnalysisError == [status |-> "error", result |-> NoResult, error |-> TRUE]

\* a HistoryItem; id and timestamp are both Date.now() at creation
HistoryItem(t, img, res) ==
    [id |-> t, timestamp |-> t, imageData |-> img, result |-> res]

\* what an earlier session persisted: k records, newest first, created at
\* times 1..k by analyses -1..-k
RECURSIVE StoredHistory(_)
StoredHistory(k) ==
    IF k = 0 THEN <<>>
    ELSE <<HistoryItem(k, Image, 0 - k)>> \o StoredHistory(k - 1)

StartNow == MaxStored + 1

AppInit ==
    /\ history = <<>>
    /\ historyIsArray = TRUE
    /\ clipboard = NoClipboard
    /\ shareParam = NoShare
    /\ historyLimit = DefaultLimit
    /\ analysis = AnalysisIdle
    /\ selectedImage = NoImage
    /\ mounted = FALSE
    /\ \E k \in {0, MaxStored - 1, MaxStored}, lim \in {Absent} \cup {Stored(n) : n \in LimitOptions} :
          /\ k <= (IF lim = Absent THEN DefaultLimit ELSE lim.v)
          /\ lsHistory = (IF k = 0 THEN Absent ELSE Stored(StoredHistory(k)))
          /\ lsLimit = lim
          /\ saved = Range(StoredHistory(k))
    /\ pending = {}
    /\ now = StartNow
    /\ started = 0
    /\ deletes = 0
    /\ deletedIds = {}
    /\ limitChanges = 0
    /\ lastOp = [op |-> "init"]

(***************************************************************************)
(* Share links: handleCopyLink of ResultDisplay and the mount effect       *)
(***************************************************************************)
\* an optional property: undefined (or missing), or a value
Undefined == [kind |-> "undefined"]
Defined(v) == [kind |-> "value", v |-> v]

\* an AnalysisResult as analyzeImage returns it: {text, groundingChunks},
\* groundingChunks possibly undefined; a GroundingChunk is {web?: {uri, title}}
AnalysisResult(t, chunks) == [text |-> t, groundingChunks |-> chunks]
GroundingChunk(web) == [web |-> web]

\* JSON text, by its syntax tree
JString(str) == [json |-> "string", s |-> str]
JArray(items) == [json |-> "array", items |-> items]
JObject(members) == [json |-> "object", members |-> members]
JMember(key, value) == [key |-> key, value |-> value]

\* the value of the member of a JSON object, Undefined when it has none
JsonMember(doc, key) ==
    IF \E i \in 1..Len(doc.members) : doc.members[i].key = key
    THEN Defined(doc.members[CHOOSE i \in 1..Len(doc.members) : doc.members[i].key = key].value)
    ELSE Undefined

\* JSON.stringify: a property whose value is undefined is left out
StringifyWeb(web) ==
    JObject(<<JMember("uri", JString(web.uri)), JMember("title", JString(web.title))>>)
StringifyChunk(chunk) ==
    JObject(IF chunk.web = Undefined THEN <<>>
            ELSE <<JMember("web", StringifyWeb(chunk.web.v))>>)
StringifyChunks(chunks) ==
    JArray(SubSeq([i \in 1..Len(chunks) |-> StringifyChunk(chunks[i])], 1, Len(chunks)))

\* JsonStringify that writes the text only
JsonStringifyTextOnly(r) == JObject(<<JMember("text", JString(r.text))>>)

JsonStringify(r) ==
    JObject(<<JMember("text", JString(r.text))>>
            \o (IF r.groundingChunks = Undefined THEN <<>>
                ELSE <<JMember("groundingChunks", StringifyChunks(r.groundingChunks.v))>>))

\* JSON.parse, read as an AnalysisResult: a missing property reads as undefined
ParseWeb(doc) == [uri |-> JsonMember(doc, "uri").v.s, title |-> JsonMember(doc, "title").v.s]
ParseChunk(doc) ==
    GroundingChunk(IF JsonMember(doc, "web") = Undefined THEN Undefined
                   ELSE Defined(ParseWeb(JsonMember(doc, "web").v)))
ParseChunks(doc) ==
    SubSeq([i \in 1..Len(doc.items) |-> ParseChunk(doc.items[i])], 1, Len(doc.items))
JsonParse(doc) ==
    AnalysisResult(JsonMember(doc, "text").v.s,
                   IF JsonMember(doc, "groundingChunks") = Undefined THEN Undefined
                   ELSE Defined(ParseChunks(JsonMember(doc, "groundingChunks").v)))

\* lz-string: compressToEncodedURIComponent gives a token of URI-safe
\* characters from which decompressFromEncodedURIComponent gives the
\* string back; on any other input it gives null or ''
CompressToEncodedURIComponent(str) == [lz |-> "EncodedURIComponent", plain |-> str]
GarbageToken == [lz |-> "garbage", plain |-> JString("")]
DecompressFromEncodedURIComponent(token) ==
    IF token.lz = "EncodedURIComponent" THEN Defined(token.plain) ELSE Undefined

\* the 'share' parameter of the URL that handleCopyLink writes for r
ShareLink(r) == Defined(CompressToEncodedURIComponent(JsonStringify(r)))

\* the analysis state the mount effect leaves for a 'share' parameter
SharedAnalysis(param, current) ==
    IF param = NoShare THEN current
    ELSE LET decompressed == DecompressFromEncodedURIComponent(param.v)
         IN  IF decompressed = Undefined THEN current
             ELSE AnalysisSuccess(JsonParse(decompressed.v))

\* useEffect(() => {...}, []): load the limit, then the history, then the
\* shared result of the URL
Mount ==
    /\ ~mounted
    /\ mounted' = TRUE
    /\ LET currentLimit == IF lsLimit = Absent THEN DefaultLimit
                           ELSE IF lsLimit = NotANumber THEN NaN
                           ELSE lsLimit.v
           historyData == IF lsHistory.kind = "value" THEN lsHistory.v ELSE <<>>
       IN  /\ historyLimit' = currentLimit
           \* JSON.parse throws on CorruptJson and the catch leaves history
           \* alone; an object has no length and is handed to setHistory
           /\ history' = IF lsHistory.kind # "value" THEN history
                         ELSE IF currentLimit # NaN /\ Len(historyData) > currentLimit
                              THEN Slice0(historyData, currentLimit)
                              ELSE historyData
           /\ historyIsArray' = (lsHistory # NonArrayJson)
    /\ analysis' = SharedAnalysis(shareParam, analysis)
    /\ lastOp' = [op |-> "mount"]
    /\ UNCHANGED <<selectedImage, lsHistory, lsLimit, pending, now,
                   started, deletes, limitChanges, saved>>
    /\ UNCHANGED <<clipboard, shareParam, deletedIds>>

\* Date.now() advances
Tick ==
    /\ now < StartNow + MaxTicks
    /\ now' = now + 1
    /\ UNCHANGED <<history, historyLimit, analysis, selectedImage, mounted,
                   lsHistory, lsLimit, pending, started, deletes, limitChanges, saved, lastOp>>
    /\ UNCHANGED <<historyIsArray, clipboard, shareParam, deletedIds>>

\* saveToHistory as called by a handler whose closure holds (hist, limit):
\* the new in-memory list and the new persisted value; ok1 and ok2 say
\* whether the first and the fallback localStorage.setItem succeed
NewItem(img, res) == HistoryItem(now, img, res)

SaveToHistoryList(hist, limit, img, res) ==
    Slice0(<<NewItem(img, res)>> \o hist, limit)

SaveToHistoryStored(hist, limit, img, res, ok1, ok2) ==
    LET updatedHistory == SaveToHistoryList(hist, limit, img, res)
    IN  IF ok1 THEN Stored(updatedHistory)
        ELSE IF Len(updatedHistory) > 1 /\ ok2 THEN Stored(<<NewItem(img, res)>>)
        ELSE lsHistory

\* handleLimitChange(newLimit), from the <select> of the settings modal
HandleLimitChange(newLimit, ok) ==
    /\ mounted
    /\ newLimit # historyLimit
    /\ limitChanges < MaxLimitChanges
    /\ limitChanges' = limitChanges + 1
    /\ historyLimit' = newLimit
    /\ lsLimit' = Stored(newLimit)
    /\ IF historyIsArray /\ Len(history) > newLimit
       THEN /\ history' = Slice0(history, newLimit)
            /\ lsHistory' = IF ok THEN Stored(Slice0(history, newLimit)) ELSE lsHistory
       ELSE UNCHANGED <<history, lsHistory>>
    /\ lastOp' = [op |-> "limit", limit |-> newLimit]
    /\ UNCHANGED <<analysis, selectedImage, mounted, pending, now, started, deletes, saved>>
    /\ UNCHANGED <<historyIsArray, clipboard, shareParam, deletedIds>>

\* deleteHistoryItem(e, id), from the trash button of a history card
\* ok: localStorage.setItem returns; otherwise it throws, after setHistory,
\* and nothing in the handler catches it
DeleteHistoryItem(id, ok) ==
    /\ mounted
    /\ deletes < MaxDeletes
    /\ \E i \in 1..Len(history) : history[i].id = id
    /\ LET updated == FilterOutId(history, id)
       IN  /\ history' = updated
           /\ lsHistory' = IF ok THEN Stored(updated) ELSE lsHistory
    /\ deletes' = deletes + 1
    /\ deletedIds' = deletedIds \cup {id}
    /\ lastOp' = [op |-> "delete", id |-> id, ok |-> ok]
    /\ UNCHANGED <<historyLimit, analysis, selectedImage, mounted, lsLimit, pending,
                   now, started, limitChanges, saved>>
    /\ UNCHANGED <<historyIsArray, clipboard, shareParam>>

\* loadFromHistory(item), from a click on a history card
LoadFromHistory(i) ==
    /\ mounted
    /\ i \in 1..Len(history)
    /\ selectedImage' = history[i].imageData
    /\ analysis' = AnalysisSuccess(history[i].result)
    /\ lastOp' = [op |-> "load", id |-> history[i].id]
    /\ UNCHANGED <<history, historyLimit, mounted, lsHistory, lsLimit, pending, now,
                   started, deletes, limitChanges, saved>>
    /\ UNCHANGED <<historyIsArray, clipboard, shareParam, deletedIds>>

\* handleImageSelect, from the uploader (its controls are hidden while
\* isAnalyzing)
HandleImageSelect ==
    /\ mounted
    /\ analysis.status # "analyzing"
    /\ selectedImage' = Image
    /\ analysis' = AnalysisIdle
    /\ lastOp' = [op |-> "select"]
    /\ UNCHANGED <<history, historyLimit, mounted, lsHistory, lsLimit, pending, now,
                   started, deletes, limitChanges, saved>>
    /\ UNCHANGED <<historyIsArray, clipboard, shareParam, deletedIds>>

\* handleClear, from Reset, Exit Program or the uploader's clear button
HandleClear ==
    /\ mounted
    /\ analysis.status # "analyzing"
    /\ selectedImage' = NoImage
    /\ analysis' = AnalysisIdle
    /\ lastOp' = [op |-> "clear"]
    /\ UNCHANGED <<history, historyLimit, mounted, lsHistory, lsLimit, pending, now,
                   started, deletes, limitChanges, saved>>
    /\ UNCHANGED <<historyIsArray, clipboard, shareParam, deletedIds>>

\* handleAnalyze up to the await: the button is rendered when an image is
\* selected and the status is neither analyzing nor success.  The call in
\* flight keeps the closure of this render: history, historyLimit,
\* selectedImage.
HandleAnalyze ==
    /\ mounted
    /\ selectedImage # NoImage
    /\ analysis.status \notin {"analyzing", "success"}
    /\ started < MaxAnalyses
    /\ analysis' = AnalysisAnalyzing
    /\ pending' = pending \cup {[rid |-> started + 1, history |-> history,
                                 historyIsArray |-> historyIsArray,
                                 historyLimit |-> historyLimit,
                                 selectedImage |-> selectedImage]}
    /\ started' = started + 1
    /\ lastOp' = [op |-> "analyze", rid |-> started + 1]
    /\ UNCHANGED <<history, historyLimit, selectedImage, mounted, lsHistory, lsLimit,
                   now, deletes, limitChanges, saved>>
    /\ UNCHANGED <<historyIsArray, clipboard, shareParam, deletedIds>>

\* the continuation of handleAnalyze after analyzeImage resolved:
\* setAnalysis(success), then saveToHistory of the same closure.  When the
\* closure's history is not an array, [newItem, ...history] throws a
\* TypeError inside the try block and the catch branch sets the error state.
AnalyzeResolved(p, ok1, ok2) ==
    /\ p \in pending
    /\ pending' = pending \ {p}
    /\ IF p.historyIsArray
       THEN /\ analysis' = AnalysisSuccess(p.rid)
            /\ history' = SaveToHistoryList(p.history, p.historyLimit,
                                            p.selectedImage, p.rid)
            /\ lsHistory' = SaveToHistoryStored(p.history, p.historyLimit,
                                                p.selectedImage, p.rid, ok1, ok2)
       ELSE /\ analysis' = AnalysisError
            /\ UNCHANGED <<history, lsHistory>>
    /\ saved' = saved \cup {NewItem(p.selectedImage, p.rid)}
    /\ lastOp' = [op |-> "resolved", rid |-> p.rid, limit |-> p.historyLimit,
                  before |-> Len(history), ok1 |-> ok1, ok2 |-> ok2]
    /\ UNCHANGED <<historyLimit, selectedImage, mounted, lsLimit, now, started, deletes,
                   limitChanges>>
    /\ UNCHANGED <<historyIsArray, clipboard, shareParam, deletedIds>>

\* the catch branch of handleAnalyze after analyzeImage rejected
AnalyzeRejected(p) ==
    /\ p \in pending
    /\ pending' = pending \ {p}
    /\ analysis' = AnalysisError
    /\ lastOp' = [op |-> "rejected", rid |-> p.rid]
    /\ UNCHANGED <<history, historyLimit, selectedImage, mounted, lsHistory, lsLimit,
                   now, started, deletes, limitChanges, saved>>
    /\ UNCHANGED <<historyIsArray, clipboard, shareParam, deletedIds>>

(***************************************************************************)
(* Strings: a JavaScript string is a sequence of one-character strings     *)
(***************************************************************************)
Chars(str) == SubSeq([i \in 1..Len(str) |-> SubSeq(str, i, i)], 1, Len(str))

Digits == Range(Chars("0123456789"))

\* ToUpperCase without the conversion
ToUpperCaseKept(s) == s

\* String.prototype.toLowerCase / toUpperCase, one character
LowerTable ==
    [A |-> "a", B |-> "b", C |-> "c", D |-> "d", E |-> "e",
     F |-> "f", G |-> "g", H |-> "h", I |-> "i", J |-> "j", K |-> "k",
     L |-> "l", M |-> "m", N |-> "n", O |-> "o", P |-> "p", Q |-> "q",
     R |-> "r", S |-> "s", T |-> "t", U |-> "u", V |-> "v", W |-> "w",
     X |-> "x", Y |-> "y", Z |-> "z"]
UpperTable ==
    [a |-> "A", b |-> "B", c |-> "C", d |-> "D", e |-> "E",
     f |-> "F", g |-> "G", h |-> "H", i |-> "I", j |-> "J", k |-> "K",
     l |-> "L", m |-> "M", n |-> "N", o |-> "O", p |-> "P", q |-> "Q",
     r |-> "R", s |-> "S", t |-> "T", u |-> "U", v |-> "V", w |-> "W",
     x |-> "X", y |-> "Y", z |-> "Z"]
LowerChar(c) == IF c \in DOMAIN LowerTable THEN LowerTable[c] ELSE c
UpperChar(c) == IF c \in DOMAIN UpperTable THEN UpperTable[c] ELSE c
ToLowerCase(s) == SubSeq([i \in 1..Len(s) |-> LowerChar(s[i])], 1, Len(s))
ToUpperCase(s) == SubSeq([i \in 1..Len(s) |-> UpperChar(s[i])], 1, Len(s))

\* the regular expression class \s (of the characters of the model)
IsSpace(c) == c \in {" ", "\n", "\t"}
\* the class [:\-\.]
IsSeparator(c) == c \in {":", "-", "."}
\* the class [\s:\-\.]
IsSpaceOrSeparator(c) == IsSpace(c) \/ IsSeparator(c)
IsDigit(c) == c \in Digits

\* does pat occur in s at index k (1-based)
MatchAt(s, pat, k) ==
    /\ k >= 1
    /\ k + Len(pat) - 1 <= Len(s)
    /\ \A m \in 1..Len(pat) : s[k + m - 1] = pat[m]

\* does the lower-case pat occur in s at index k, whatever the letter case
\* of s (a literal of a regular expression with the i flag)
MatchAtAnyCase(s, pat, k) ==
    /\ k + Len(pat) - 1 <= Len(s)
    /\ \A m \in 1..Len(pat) : LowerChar(s[k + m - 1]) = pat[m]

\* String.prototype.indexOf(pat, from), 1-based, 0 when absent
IndexOfFrom(s, pat, k) ==
    IF \E i \in k..(Len(s) - Len(pat) + 1) : MatchAt(s, pat, i)
    THEN CHOOSE i \in k..(Len(s) - Len(pat) + 1) :
             MatchAt(s, pat, i) /\ \A m \in k..(i - 1) : ~MatchAt(s, pat, m)
    ELSE 0

IndexOf(s, pat) == IndexOfFrom(s, pat, 1)
Includes(s, pat) == IndexOf(s, pat) # 0
StartsWith(s, pat) == MatchAt(s, pat, 1)

\* the first index >= k whose character does not satisfy the class, Len+1 if none
RECURSIVE SkipSpaces(_, _)
SkipSpaces(s, k) ==
    IF k > Len(s) \/ ~IsSpace(s[k]) THEN k ELSE SkipSpaces(s, k + 1)
RECURSIVE SkipSpacesAndSeparators(_, _)
SkipSpacesAndSeparators(s, k) ==
    IF k > Len(s) \/ ~IsSpaceOrSeparator(s[k]) THEN k ELSE SkipSpacesAndSeparators(s, k + 1)
RECURSIVE SkipDigits(_, _)
SkipDigits(s, k) ==
    IF k > Len(s) \/ ~IsDigit(s[k]) THEN k ELSE SkipDigits(s, k + 1)
RECURSIVE SkipStars(_, _)
SkipStars(s, k) ==
    IF k > Len(s) \/ s[k] # "*" THEN k ELSE SkipStars(s, k + 1)
\* the last index <= k whose character is not white space, 0 if none
RECURSIVE LastNonSpace(_, _)
LastNonSpace(s, k) ==
    IF k < 1 \/ ~IsSpace(s[k]) THEN k ELSE LastNonSpace(s, k - 1)

\* String.prototype.trim
Trim(s) == SubSeq(s, SkipSpaces(s, 1), LastNonSpace(s, Len(s)))

\* String.prototype.split(sep) for a one-character separator
RECURSIVE SplitFrom(_, _, _)
SplitFrom(s, sep, k) ==
    LET n == IndexOfFrom(s, <<sep>>, k)
    IN  IF n = 0 THEN <<SubSeq(s, k, Len(s))>>
        ELSE <<SubSeq(s, k, n - 1)>> \o SplitFrom(s, sep, n + 1)
Split(s, sep) == SplitFrom(s, sep, 1)

\* String.prototype.replace(pat, '') for a string pattern: the first occurrence
RemoveFirst(s, pat) ==
    LET k == IndexOf(s, pat)
    IN  IF k = 0 THEN s
        ELSE SubSeq(s, 1, k - 1) \o SubSeq(s, k + Len(pat), Len(s))

(***************************************************************************)
(* ResultDisplay: the parse useMemo                                        *)
(***************************************************************************)
StartMarker == Chars("~abcde_start~")
EndMarker == Chars("~abcde_end~")
NA == Chars("N/A")

\* the labels and words the parser looks for
KwConfidenceScore == Chars("confidence score")
KwIsicRiskScore == Chars("isic risk score")
KwIsicScore == Chars("isic score")
KwGlasgowScore == Chars("glasgow score")
KwRiskLevel == Chars("risk level")
KwHamPrediction == Chars("ham10000 prediction")
KwHamConfidence == Chars("ham10000 confidence")
KwDermFeatures == Chars("dermatoscopic features")
KwMoles == Chars("moles")
KeyMoles == Chars("MOLES")
KwSuspicious == Chars("suspicious")
KwBenign == Chars("benign")
KwUnknown == Chars("unknown")
KwConsultADoctor == Chars("consult a doctor")
KwMelanoma == Chars("melanoma")
KwCarcinoma == Chars("carcinoma")

\* the last index >= k at which pat occurs in s, 0 when there is none
RECURSIVE LastIndexOfFrom(_, _, _)
LastIndexOfFrom(s, pat, k) ==
    LET n == IndexOfFrom(s, pat, k)
    IN  IF n = 0 THEN 0
        ELSE IF IndexOfFrom(s, pat, n + 1) = 0 THEN n
        ELSE LastIndexOfFrom(s, pat, n + 1)

\* AbcdeMatch with a greedy group, /~ABCDE_START~([\s\S]*)~ABCDE_END~/i
AbcdeMatchGreedy(t) ==
    LET low == ToLowerCase(t)
        i == IndexOf(low, StartMarker)
        j == IF i = 0 THEN 0 ELSE LastIndexOfFrom(low, EndMarker, i + Len(StartMarker))
    IN  IF i = 0 \/ j = 0 THEN [from |-> 0, to |-> 0, inner |-> <<>>]
        ELSE [from |-> i, to |-> j + Len(EndMarker) - 1,
              inner |-> SubSeq(t, i + Len(StartMarker), j - 1)]

\* text.match(/~ABCDE_START~([\s\S]*?)~ABCDE_END~/i): the leftmost start
\* marker that an end marker follows, and the nearest end marker after it.
\* [from |-> 0] when there is no match, else the indices of match[0]
AbcdeMatch(t) ==
    LET low == ToLowerCase(t)
        i == IndexOf(low, StartMarker)
        j == IF i = 0 THEN 0 ELSE IndexOfFrom(low, EndMarker, i + Len(StartMarker))
    IN  IF i = 0 \/ j = 0 THEN [from |-> 0, to |-> 0, inner |-> <<>>]
        ELSE [from |-> i, to |-> j + Len(EndMarker) - 1,
              inner |-> SubSeq(t, i + Len(StartMarker), j - 1)]

\* cleanLine.match(/[:\-\.]\s*(.*)/): m[1], or "none" when there is no match
FirstSeparator(s) ==
    IF \E k \in 1..Len(s) : IsSeparator(s[k])
    THEN CHOOSE k \in 1..Len(s) : IsSeparator(s[k]) /\ \A m \in 1..(k - 1) : ~IsSeparator(s[m])
    ELSE 0

MatchRest(line) ==
    LET k == FirstSeparator(line)
    IN  IF k = 0 THEN [ok |-> FALSE, g |-> <<>>]
        ELSE [ok |-> TRUE, g |-> SubSeq(line, SkipSpaces(line, k + 1), Len(line))]

\* cleanLine.match(/[:\-\.]\s*(\d+)/): the leftmost separator that white
\* space and then a digit follow; m[1] is the run of digits
MatchDigits(line) ==
    LET Hit(k) == /\ IsSeparator(line[k])
                  /\ SkipSpaces(line, k + 1) <= Len(line)
                  /\ IsDigit(line[SkipSpaces(line, k + 1)])
    IN  IF \E k \in 1..Len(line) : Hit(k)
        THEN LET k == CHOOSE k \in 1..Len(line) : Hit(k) /\ \A m \in 1..(k - 1) : ~Hit(m)
                 d == SkipSpaces(line, k + 1)
             IN  [ok |-> TRUE, g |-> SubSeq(line, d, SkipDigits(line, d) - 1)]
        ELSE [ok |-> FALSE, g |-> <<>>]

\* m[1].split(',').map(s => s.trim()).filter(Boolean)
RECURSIVE TrimAndDropEmpty(_)
TrimAndDropEmpty(parts) ==
    IF parts = <<>> THEN <<>>
    ELSE IF Trim(Head(parts)) = <<>> THEN TrimAndDropEmpty(Tail(parts))
    ELSE <<Trim(Head(parts))>> \o TrimAndDropEmpty(Tail(parts))
FeatureList(g) == TrimAndDropEmpty(Split(g, ","))

\* letterMap
LetterMap(k) ==
    CASE k = "A" -> "Asymmetry"
      [] k = "B" -> "Border"
      [] k = "C" -> "Color"
      [] k = "D" -> "Diameter"
      [] k = "E" -> "Evolving"
      [] OTHER -> ""

\* cleanLine.match(/^\**([ABCDE]|Moles)\**[:\-\.]\s*(.*)/i):
\* lineMatch[1].toUpperCase() and lineMatch[2]
LineMatch(line) ==
    LET a == SkipStars(line, 1)
        low == ToLowerCase(line)
        isLetter == a <= Len(line) /\ low[a] \in {"a", "b", "c", "d", "e"}
        isMoles == MatchAt(low, KwMoles, a)
        keyEnd == IF isLetter THEN a ELSE a + 4
        b == SkipStars(line, keyEnd + 1)
    IN  IF (isLetter \/ isMoles) /\ b <= Len(line) /\ IsSeparator(line[b])
        THEN [ok |-> TRUE,
              rawKey |-> ToUpperCase(SubSeq(line, a, keyEnd)),
              rawContent |-> SubSeq(line, SkipSpaces(line, b + 1), Len(line))]
        ELSE [ok |-> FALSE, rawKey |-> <<>>, rawContent |-> <<>>]

StatusWords == <<KwBenign, KwSuspicious, KwUnknown>>

\* the status word (lower case) that s holds at index k, <<>> if none
StatusWordAt(low, k) ==
    IF \E w \in 1..3 : MatchAt(low, StatusWords[w], k)
    THEN StatusWords[CHOOSE w \in 1..3 : MatchAt(low, StatusWords[w], k)]
    ELSE <<>>

\* .replace(/\[(Benign|Suspicious|Unknown)\]/gi, ''): one pass, left to right
RECURSIVE StripBracketed(_, _)
StripBracketed(s, k) ==
    IF k > Len(s) THEN <<>>
    ELSE LET w == IF s[k] = "[" THEN StatusWordAt(ToLowerCase(s), k + 1) ELSE <<>>
             close == k + Len(w) + 1
         IN  IF w # <<>> /\ close <= Len(s) /\ s[close] = "]"
             THEN StripBracketed(s, close + 1)
             ELSE <<s[k]>> \o StripBracketed(s, k + 1)

\* StripLeadingStatus without the replacement
StripLeadingStatusKept(s) == s

\* .replace(/^(Benign|Suspicious|Unknown)\s*[:\-\.]/gi, '')
StripLeadingStatus(s) ==
    LET w == StatusWordAt(ToLowerCase(s), 1)
        k == SkipSpaces(s, Len(w) + 1)
    IN  IF w # <<>> /\ k <= Len(s) /\ IsSeparator(s[k])
        THEN SubSeq(s, k + 1, Len(s))
        ELSE s

\* .replace(/^[\s:\-\.]+/g, '')
StripLeadingSeparators(s) == SubSeq(s, SkipSpacesAndSeparators(s, 1), Len(s))

\* status of a criterion line
StatusOf(rawContent) ==
    LET lowerContent == ToLowerCase(rawContent)
    IN  IF Includes(lowerContent, KwSuspicious) THEN "Suspicious"
        ELSE IF Includes(lowerContent, KwBenign) THEN "Benign"
        ELSE "Unknown"

\* the status as the string the summary falls back to
TextSuspicious == Chars("Suspicious")
TextBenign == Chars("Benign")
StatusText(status) == IF status = "Suspicious" THEN TextSuspicious ELSE TextBenign

\* summary of a criterion line
SummaryOf(rawContent, status) ==
    LET summary == Trim(StripLeadingSeparators(StripLeadingStatus(
                       StripBracketed(rawContent, 1))))
    IN  IF summary = <<>>
        THEN (IF status # "Unknown" THEN StatusText(status) ELSE rawContent)
        ELSE summary

\* the value of the useMemo when no block was found
EmptyParse(t) ==
    [abcdeData |-> <<>>, cleanText |-> t, confidenceScore |-> NA, isicScore |-> NA,
     hamPrediction |-> NA, hamConfidence |-> NA, glasgowScore |-> NA,
     riskLevel |-> NA, dermFeatures |-> <<>>]

\* the body of lines.forEach(line => {...}) applied to the accumulated result
ParseLine(acc, line) ==
    LET cleanLine == Trim(line)
        lowerLine == ToLowerCase(cleanLine)
        rest == MatchRest(cleanLine)
        digits == MatchDigits(cleanLine)
        lineMatch == LineMatch(cleanLine)
        rawKey == lineMatch.rawKey
        letter == IF rawKey = KeyMoles THEN "M" ELSE rawKey[1]
        title == IF rawKey = KeyMoles THEN "Moles" ELSE LetterMap(rawKey[1])
        status == StatusOf(lineMatch.rawContent)
    IN  IF cleanLine = <<>> THEN acc
        ELSE IF StartsWith(lowerLine, KwConfidenceScore)
        THEN (IF rest.ok THEN [acc EXCEPT !.confidenceScore = Trim(rest.g)] ELSE acc)
        ELSE IF Includes(lowerLine, KwIsicRiskScore)
                \/ Includes(lowerLine, KwIsicScore)
        THEN (IF digits.ok THEN [acc EXCEPT !.isicScore = Trim(digits.g)] ELSE acc)
        ELSE IF Includes(lowerLine, KwGlasgowScore)
        THEN (IF digits.ok THEN [acc EXCEPT !.glasgowScore = Trim(digits.g)] ELSE acc)
        ELSE IF Includes(lowerLine, KwRiskLevel)
        THEN (IF rest.ok THEN [acc EXCEPT !.riskLevel = Trim(rest.g)] ELSE acc)
        ELSE IF Includes(lowerLine, KwHamPrediction)
        THEN (IF rest.ok THEN [acc EXCEPT !.hamPrediction = Trim(rest.g)] ELSE acc)
        ELSE IF Includes(lowerLine, KwHamConfidence)
        THEN (IF rest.ok THEN [acc EXCEPT !.hamConfidence = Trim(rest.g)] ELSE acc)
        ELSE IF Includes(lowerLine, KwDermFeatures)
        THEN (IF rest.ok THEN [acc EXCEPT !.dermFeatures = FeatureList(rest.g)] ELSE acc)
        ELSE IF lineMatch.ok /\ title # ""
        THEN [acc EXCEPT !.abcdeData = Append(@,
                 [letter |-> letter, title |-> title, status |-> status,
                  summary |-> SummaryOf(lineMatch.rawContent, status)])]
        ELSE acc

RECURSIVE ParseLines(_, _, _)
ParseLines(acc, lines, k) ==
    IF k > Len(lines) THEN acc
    ELSE ParseLines(ParseLine(acc, lines[k]), lines, k + 1)

\* the useMemo(() => {...}, [text])
ParseResponse(t) ==
    LET match == AbcdeMatch(t)
        match0 == SubSeq(t, match.from, match.to)
        rawData == Trim(match.inner)
        remainingText == Trim(RemoveFirst(t, match0))
    IN  IF match.from = 0 THEN EmptyParse(t)
        ELSE ParseLines(EmptyParse(remainingText), Split(rawData, "\n"), 1)

\* hasSuspiciousItems and isGeneralSuspicious
HasSuspiciousItems(abcdeData) ==
    \E i \in 1..Len(abcdeData) : abcdeData[i].status = "Suspicious"

IsGeneralSuspicious(p) ==
    \/ HasSuspiciousItems(p.abcdeData)
    \/ Includes(ToLowerCase(p.cleanText), KwConsultADoctor)
    \/ Includes(ToLowerCase(p.cleanText), KwMelanoma)
    \/ Includes(ToLowerCase(p.cleanText), KwCarcinoma)

(***************************************************************************)
(* storageService: parseMetrics                                            *)
(***************************************************************************)
DigitChars == Chars("0123456789")
DigitValue(c) == (CHOOSE d \in 1..10 : DigitChars[d] = c) - 1

\* parseInt(s, 10) of a run of digits
RECURSIVE ParseIntFrom(_, _, _)
ParseIntFrom(s, k, acc) ==
    IF k > Len(s) THEN acc ELSE ParseIntFrom(s, k + 1, acc * 10 + DigitValue(s[k]))
ParseInt(s) == ParseIntFrom(s, 1, 0)

\* text.match(/<label>[:\-\.]\s*(\d+)/i), with a '%' after the digits when
\* percent is TRUE: the leftmost match; g is the run of digits
LabelDigitsAt(t, label, percent, i) ==
    LET s == i + Len(label)
        d == SkipSpaces(t, s + 1)
    IN  /\ MatchAtAnyCase(t, label, i)
        /\ s <= Len(t) /\ IsSeparator(t[s])
        /\ d <= Len(t) /\ IsDigit(t[d])
        /\ percent => (SkipDigits(t, d) <= Len(t) /\ t[SkipDigits(t, d)] = "%")

MatchLabelDigits(t, label, percent) ==
    IF \E i \in 1..Len(t) : LabelDigitsAt(t, label, percent, i)
    THEN LET i == CHOOSE i \in 1..Len(t) :
                      /\ LabelDigitsAt(t, label, percent, i)
                      /\ \A m \in 1..(i - 1) : ~LabelDigitsAt(t, label, percent, m)
             d == SkipSpaces(t, i + Len(label) + 1)
         IN  [ok |-> TRUE, g |-> SubSeq(t, d, SkipDigits(t, d) - 1)]
    ELSE [ok |-> FALSE, g |-> <<>>]

\* text.match(/Risk Level[:\-\.]\s*(High|Medium|Low)/i): g is the tier as written
KwHigh == Chars("high")
KwMedium == Chars("medium")
KwLow == Chars("low")
RiskTiers == <<KwHigh, KwMedium, KwLow>>
RiskTierAt(t, i) ==
    LET s == i + Len(KwRiskLevel)
        d == SkipSpaces(t, s + 1)
    IN  IF /\ MatchAtAnyCase(t, KwRiskLevel, i)
           /\ s <= Len(t) /\ IsSeparator(t[s])
           /\ \E w \in 1..3 : MatchAtAnyCase(t, RiskTiers[w], d)
        THEN LET w == CHOOSE w \in 1..3 :
                          /\ MatchAtAnyCase(t, RiskTiers[w], d)
                          /\ \A v \in 1..(w - 1) : ~MatchAtAnyCase(t, RiskTiers[v], d)
             IN  SubSeq(t, d, d + Len(RiskTiers[w]) - 1)
        ELSE <<>>

MatchRiskTier(t) ==
    IF \E i \in 1..Len(t) : RiskTierAt(t, i) # <<>>
    THEN [ok |-> TRUE,
          g |-> RiskTierAt(t, CHOOSE i \in 1..Len(t) :
                                  /\ RiskTierAt(t, i) # <<>>
                                  /\ \A m \in 1..(i - 1) : RiskTierAt(t, m) = <<>>)]
    ELSE [ok |-> FALSE, g |-> <<>>]

DefaultRiskLevel == Chars("Low")

\* parseMetrics(text)
ParseMetrics(t) ==
    LET isicMatch == MatchLabelDigits(t, KwIsicRiskScore, FALSE)
        glasgowMatch == MatchLabelDigits(t, KwGlasgowScore, FALSE)
        confMatch == MatchLabelDigits(t, KwConfidenceScore, TRUE)
        riskMatch == MatchRiskTier(t)
    IN  [isicScore |-> IF isicMatch.ok THEN ParseInt(isicMatch.g) ELSE 0,
         glasgowScore |-> IF glasgowMatch.ok THEN ParseInt(glasgowMatch.g) ELSE 0,
         confidence |-> IF confMatch.ok THEN ParseInt(confMatch.g) ELSE 0,
         riskLevel |-> IF riskMatch.ok THEN riskMatch.g ELSE DefaultRiskLevel]

(***************************************************************************)
(* Parser specification: response texts and the parse applied to them      *)
(***************************************************************************)
NoParse == [kind |-> "none"]
NoMetrics == [kind |-> "none"]

\* storageService before its first call: nothing is stored under its keys
SvcIdle ==
    /\ svcMoles = Absent
    /\ svcHistory = Absent
    /\ svcNow = 1
    /\ svcOp = [op |-> "init"]

\* recognitionRef.current === null
NoRecognition ==
    [state |-> "none", transcript |-> <<>>, n |-> 0, origin |-> "none", atStart |-> <<>>]

\* ImageUploader's notes section as constructed: empty notes, no dictation
NotesIdle ==
    /\ notesValue = <<>>
    /\ notesValueRef = <<>>
    /\ baseNotesRef = <<>>
    /\ isRecording = FALSE
    /\ recognition = NoRecognition
    /\ recTimers = {}
    /\ recStarting = {}
    /\ noteOp = [op |-> "init"]

\* ImageUploader's camera as constructed: closed, no stream
CamIdle ==
    /\ isCameraOpen = FALSE
    /\ resolution = "FHD"
    /\ streamRef = 0
    /\ liveStreams = {}
    /\ obtained = 0
    /\ camPending = {}
    /\ camStarts = 0
    /\ camOp = [op |-> "init"]

ExtIdle == SvcIdle /\ NotesIdle /\ CamIdle

ParseIdle ==
    /\ text = <<>>
    /\ parsed = NoParse
    /\ pphase = "input"
    /\ metrics = NoMetrics

\* the example response of the specification's section 8
ExampleResponse ==
    Chars("~ABCDE_START~\nConfidence Score: 82%\nISIC Risk Score: 6\nA: Suspicious - uneven halves\n~ABCDE_END~\nRest of report.")

\* a response whose block is still open
OpenBlockResponse ==
    Chars("Intro text.\n~abcde_start~\nGlasgow Score: 3\n**E**: benign, not suspicious\nColor: brown\n")

SeedTexts == {<<>>, ExampleResponse, OpenBlockResponse}

\* fragments appended to a seed text
Pieces == {
    Chars("~ABCDE_START~\n"),
    Chars("~abcde_end~\n"),
    Chars("A: Suspicious - risk level high\n"),
    Chars("B - \n"),
    Chars("a:\n"),
    Chars("c. [Benign]\n"),
    Chars("Moles: Benign - uniform spots\n"),
    Chars("moles- glasgow score pending\n"),
    Chars("Risk Level: High\n"),
    Chars("ISIC Risk Score: 15\n"),
    Chars("Confidence Score: high\n"),
    Chars("Dermatoscopic Features: pigment network, , dots\n"),
    Chars("Please consult a doctor.") }

\* an App component that stays as constructed, with empty storage
AppIdle ==
    /\ history = <<>>
    /\ historyIsArray = TRUE
    /\ clipboard = NoClipboard
    /\ shareParam = NoShare
    /\ historyLimit = DefaultLimit
    /\ analysis = AnalysisIdle
    /\ selectedImage = NoImage
    /\ mounted = FALSE
    /\ lsHistory = Absent
    /\ lsLimit = Absent
    /\ pending = {}
    /\ now = StartNow
    /\ started = 0
    /\ deletes = 0
    /\ deletedIds = {}
    /\ limitChanges = 0
    /\ saved = {}
    /\ lastOp = [op |-> "init"]

ParseInit ==
    /\ AppIdle
    /\ ExtIdle
    /\ text \in SeedTexts
    /\ parsed = NoParse
    /\ pphase = "input"
    /\ metrics = NoMetrics

\* the response text grows by one fragment; lastOp counts the fragments
AppendPiece(piece) ==
    /\ pphase = "input"
    /\ (IF lastOp.op = "piece" THEN lastOp.n ELSE 0) < MaxPieces
    /\ text' = text \o piece
    /\ lastOp' = [op |-> "piece", n |-> (IF lastOp.op = "piece" THEN lastOp.n ELSE 0) + 1]
    /\ UNCHANGED <<parsed, pphase, metrics>>
    /\ UNCHANGED <<history, historyLimit, analysis, selectedImage, mounted, lsHistory,
                   lsLimit, pending, now, started, deletes, limitChanges, saved>>
    /\ UNCHANGED <<historyIsArray, clipboard, shareParam, deletedIds>>
    /\ UNCHANGED extVars

\* ResultDisplay renders result.text: the parse useMemo and the flag
RenderResult ==
    /\ pphase = "input"
    /\ pphase' = "parsed"
    /\ \E r \in {ParseResponse(text)} :
           parsed' = [kind |-> "parsed",
                      abcdeData |-> r.abcdeData,
                      cleanText |-> r.cleanText,
                      confidenceScore |-> r.confidenceScore,
                      isicScore |-> r.isicScore,
                      hamPrediction |-> r.hamPrediction,
                      hamConfidence |-> r.hamConfidence,
                      glasgowScore |-> r.glasgowScore,
                      riskLevel |-> r.riskLevel,
                      dermFeatures |-> r.dermFeatures,
                      isGeneralSuspicious |-> IsGeneralSuspicious(r)]
    /\ UNCHANGED <<text, metrics>>
    /\ UNCHANGED <<appVars, extVars>>

\* storageService.saveAnalysis of the rendered result: the metrics it caches
\* in the record are parseMetrics(result.text)
SaveAnalysisMetrics ==
    /\ pphase = "parsed"
    /\ metrics = NoMetrics
    /\ \E m \in {ParseMetrics(text)} :
           metrics' = [kind |-> "metrics", isicScore |-> m.isicScore,
                       glasgowScore |-> m.glasgowScore, confidence |-> m.confidence,
                       riskLevel |-> m.riskLevel]
    /\ UNCHANGED <<text, parsed, pphase>>
    /\ UNCHANGED <<appVars, extVars>>

ParseNext ==
    \/ \E piece \in Pieces : AppendPiece(piece)
    \/ RenderResult
    \/ SaveAnalysisMetrics

ParseSpec == ParseInit /\ [][ParseNext]_vars

Init == AppInit /\ ParseIdle /\ ExtIdle

Next ==
    \/ Mount /\ UNCHANGED <<parseVars, extVars>>
    \/ Tick /\ UNCHANGED <<parseVars, extVars>>
    \/ (\E n \in LimitOptions, ok \in BOOLEAN : HandleLimitChange(n, ok)) /\ UNCHANGED <<parseVars, extVars>>
    \/ (\E id \in 1..(StartNow + MaxTicks), ok \in BOOLEAN : DeleteHistoryItem(id, ok))
          /\ UNCHANGED <<parseVars, extVars>>
    \/ (\E i \in 1..Len(history) : LoadFromHistory(i)) /\ UNCHANGED <<parseVars, extVars>>
    \/ HandleImageSelect /\ UNCHANGED <<parseVars, extVars>>
    \/ HandleClear /\ UNCHANGED <<parseVars, extVars>>
    \/ HandleAnalyze /\ UNCHANGED <<parseVars, extVars>>
    \/ (\E p \in pending, ok1 \in BOOLEAN, ok2 \in BOOLEAN : AnalyzeResolved(p, ok1, ok2))
          /\ UNCHANGED <<parseVars, extVars>>
    \/ (\E p \in pending : AnalyzeRejected(p)) /\ UNCHANGED <<parseVars, extVars>>

Spec == Init /\ [][Next]_vars

(***************************************************************************)
(* The App component started on persisted values that are absent or        *)
(* corrupted                                                               *)
(***************************************************************************)
CorruptInit ==
    /\ history = <<>>
    /\ historyIsArray = TRUE
    /\ clipboard = NoClipboard
    /\ shareParam = NoShare
    /\ historyLimit = DefaultLimit
    /\ analysis = AnalysisIdle
    /\ selectedImage = NoImage
    /\ mounted = FALSE
    /\ lsHistory \in {Absent, CorruptJson, NonArrayJson}
    /\ lsLimit \in {Absent, NotANumber}
    /\ saved = {}
    /\ pending = {}
    /\ now = StartNow
    /\ started = 0
    /\ deletes = 0
    /\ deletedIds = {}
    /\ limitChanges = 0
    /\ lastOp = [op |-> "init"]
    /\ ParseIdle
    /\ ExtIdle

CorruptSpec == CorruptInit /\ [][Next]_vars

(***************************************************************************)
(* Share links: a result on display is copied as a link, and the link is   *)
(* opened in a new session                                                 *)
(***************************************************************************)
ShareTexts == {"No analysis could be generated.", "Likely benign.", "~ABCDE_START~ ... report"}
ShareWebs == {Undefined, Defined([uri |-> "https://a.example", title |-> "A"]),
              Defined([uri |-> "https://b.example", title |-> "B \"quoted\""])}
ShareChunks == {GroundingChunk(w) : w \in ShareWebs}
ShareChunkLists ==
    {<<>>} \cup {<<c>> : c \in ShareChunks} \cup {<<c, d>> : c \in ShareChunks, d \in ShareChunks}
ShareResults ==
    {AnalysisResult(t, g) : t \in ShareTexts,
                            g \in {Undefined} \cup {Defined(l) : l \in ShareChunkLists}}

\* a mounted app with the result of an analysis on display
ShareInit ==
    /\ history = <<>>
    /\ historyIsArray = TRUE
    /\ clipboard = NoClipboard
    /\ shareParam = NoShare
    /\ historyLimit = DefaultLimit
    /\ \E r \in ShareResults : analysis = AnalysisSuccess(r)
    /\ selectedImage = Image
    /\ mounted = TRUE
    /\ lsHistory = Absent
    /\ lsLimit = Absent
    /\ saved = {}
    /\ pending = {}
    /\ now = StartNow
    /\ started = 0
    /\ deletes = 0
    /\ deletedIds = {}
    /\ limitChanges = 0
    /\ lastOp = [op |-> "init"]
    /\ ParseIdle
    /\ ExtIdle

\* handleCopyLink: the link of the result on display goes to the clipboard
HandleCopyLink ==
    /\ mounted
    /\ analysis.status = "success"
    /\ clipboard' = ShareLink(analysis.result)
    /\ lastOp' = [op |-> "copyLink"]
    /\ UNCHANGED <<history, historyIsArray, historyLimit, analysis, selectedImage, mounted,
                   lsHistory, lsLimit, pending, now, started, deletes, limitChanges,
                   saved, shareParam, deletedIds>>
    /\ UNCHANGED <<parseVars, extVars>>

\* the page is opened on a URL: the component is constructed anew, and
\* window.location.search holds the 'share' parameter of the URL
OpenUrl(param) ==
    /\ pending = {}
    /\ shareParam' = param
    /\ history' = <<>>
    /\ historyIsArray' = TRUE
    /\ historyLimit' = DefaultLimit
    /\ analysis' = AnalysisIdle
    /\ selectedImage' = NoImage
    /\ mounted' = FALSE
    /\ lastOp' = [op |-> "open"]
    /\ UNCHANGED <<lsHistory, lsLimit, pending, now, started, deletes, limitChanges,
                   saved, clipboard, deletedIds>>
    /\ UNCHANGED <<parseVars, extVars>>

\* the link on the clipboard is opened
OpenCopiedLink ==
    /\ clipboard # NoClipboard
    /\ shareParam = NoShare
    /\ OpenUrl(clipboard)

\* a URL whose 'share' parameter no copy-link operation produced is opened
OpenOtherLink ==
    /\ shareParam = NoShare
    /\ OpenUrl(Defined(GarbageToken))

ShareNext ==
    \/ HandleCopyLink
    \/ OpenCopiedLink
    \/ OpenOtherLink
    \/ Mount /\ UNCHANGED <<parseVars, extVars>>
    \/ HandleClear /\ UNCHANGED <<parseVars, extVars>>

ShareSpec == ShareInit /\ [][ShareNext]_vars

(***************************************************************************)
(* storageService: lesion profiles and the analysis history it persists    *)
(* (src/services/storageService.ts)                                        *)
(***************************************************************************)
MaxMoles == 2        \* profiles saved per behaviour
MaxSvcAnalyses == 2  \* saveAnalysis calls per stored history
MaxSvcTicks == 1     \* clock advances per behaviour

HistoryCap == 50

\* the strings generateId can return: Math.random().toString(36).substr(2, 9)
\* is any of them at every call
GenerateIds == {"k3x9q0zpa", "p07qd1m2c"}

MoleNames == {"Left arm mole"}
SvcTexts == {<<>>, ExampleResponse}
MoleIds == {Undefined} \cup {Defined(id) : id \in GenerateIds}

GetMoles == IF svcMoles.kind = "value" THEN svcMoles.v ELSE <<>>

GetHistory == IF svcHistory.kind = "value" THEN svcHistory.v ELSE <<>>

MoleProfile(id, name, t) == [id |-> id, name |-> name, createdAt |-> t]

SvcHistoryItem(id, t, moleId, resultText, m) ==
    [id |-> id, timestamp |-> t, moleId |-> moleId, result |-> resultText, metrics |-> m]

\* Array.prototype.sort((a, b) => a.timestamp - b.timestamp): ascending, stable
InsertByTimestamp(sorted, x) ==
    LET k == Cardinality({i \in 1..Len(sorted) : sorted[i].timestamp <= x.timestamp})
    IN  SubSeq(sorted, 1, k) \o <<x>> \o SubSeq(sorted, k + 1, Len(sorted))

RECURSIVE SortByTimestamp(_)
SortByTimestamp(s) ==
    IF s = <<>> THEN <<>>
    ELSE InsertByTimestamp(SortByTimestamp(SubSeq(s, 1, Len(s) - 1)), s[Len(s)])

FilterByMole(s, moleId) == SelectSeq(s, LAMBDA item : item.moleId = Defined(moleId))

GetMoleHistory(moleId) == SortByTimestamp(FilterByMole(GetHistory, moleId))

SaveMole(id, name) ==
    /\ Len(GetMoles) < MaxMoles
    /\ svcMoles' = Stored(Append(GetMoles, MoleProfile(id, name, svcNow)))
    /\ svcOp' = [op |-> "saveMole", id |-> id]
    /\ UNCHANGED <<svcHistory, svcNow>>
    /\ UNCHANGED <<appVars, parseVars, notesVars, camVars>>

\* deleteMole as a variant that also drops the profile's records
DeleteMoleAndHistory(id) ==
    /\ svcMoles' = Stored(FilterOutId(GetMoles, id))
    /\ svcHistory' = Stored(SelectSeq(GetHistory, LAMBDA item : item.moleId # Defined(id)))
    /\ svcOp' = [op |-> "deleteMole", id |-> id, moles |-> GetMoles, history |-> svcHistory,
                 moleHistory |-> GetMoleHistory(id)]
    /\ UNCHANGED svcNow
    /\ UNCHANGED <<appVars, parseVars, notesVars, camVars>>

\* svcOp keeps the profile list, the stored history and getMoleHistory(id)
\* as they were when deleteMole was called
DeleteMole(id) ==
    /\ svcMoles' = Stored(FilterOutId(GetMoles, id))
    /\ svcOp' = [op |-> "deleteMole", id |-> id, moles |-> GetMoles, history |-> svcHistory,
                 moleHistory |-> GetMoleHistory(id)]
    /\ UNCHANGED <<svcHistory, svcNow>>
    /\ UNCHANGED <<appVars, parseVars, notesVars, camVars>>

SaveAnalysis(moleId, id, resultText) ==
    /\ Len(GetHistory) < MaxSvcAnalyses
    /\ \E m \in {ParseMetrics(resultText)} :
           svcHistory' = Stored(Slice0(<<SvcHistoryItem(id, svcNow, moleId, resultText, m)>>
                                           \o GetHistory, HistoryCap))
    /\ svcOp' = [op |-> "saveAnalysis", id |-> id]
    /\ UNCHANGED <<svcMoles, svcNow>>
    /\ UNCHANGED <<appVars, parseVars, notesVars, camVars>>

ClearAll ==
    /\ svcHistory' = Absent
    /\ svcMoles' = Absent
    /\ svcOp' = [op |-> "clearAll"]
    /\ UNCHANGED svcNow
    /\ UNCHANGED <<appVars, parseVars, notesVars, camVars>>

\* the clock of storageService's Date.now() advances
SvcTick ==
    /\ svcNow < 1 + MaxSvcTicks
    /\ svcNow' = svcNow + 1
    /\ UNCHANGED <<svcMoles, svcHistory, svcOp>>
    /\ UNCHANGED <<appVars, parseVars, notesVars, camVars>>

StorageInit == AppIdle /\ ParseIdle /\ ExtIdle

StorageNext ==
    \/ \E id \in GenerateIds, name \in MoleNames : SaveMole(id, name)
    \/ \E id \in GenerateIds : DeleteMole(id)
    \/ \E moleId \in MoleIds, id \in GenerateIds, t \in SvcTexts : SaveAnalysis(moleId, id, t)
    \/ ClearAll
    \/ SvcTick

StorageSpec == StorageInit /\ [][StorageNext]_vars

(***************************************************************************)
(* ImageUploader: the patient notes and their dictation                    *)
(* (src/components/ImageUploader.tsx).  One dictation is started at a      *)
(* time; a recognizer that was aborted delivers no further event.          *)
(***************************************************************************)
MaxResults == 2     \* speech result events per recording session
MaxNotesLen == 12   \* characters of the notes

\* what the user types into the notes field, and what the recognizer hears
TypedTexts == {<<>>, Chars("old"), Chars("old ")}
SpokenPieces == {Chars("new"), Chars(" x")}

\* currentBase + separator + sessionTranscript of recognition.onresult
NewText(currentBase, sessionTranscript) ==
    LET separator == IF currentBase # <<>> /\ ~IsSpace(currentBase[Len(currentBase)])
                     THEN <<" ">> ELSE <<>>
    IN  currentBase \o separator \o sessionTranscript

\* handleNotesChangeLocal: the field is disabled while isRecording
HandleNotesChangeLocal(v) ==
    /\ ~isRecording
    /\ notesValue' = v
    /\ notesValueRef' = v
    /\ noteOp' = [op |-> "type"]
    /\ UNCHANGED <<baseNotesRef, isRecording, recognition, recTimers, recStarting>>
    /\ UNCHANGED <<appVars, parseVars, svcVars, camVars>>

\* startRecording up to its await: an existing recognizer is aborted, and
\* the call waits for the microphone with the notesValue of its render
StartRecording(closureNotes, origin) ==
    /\ recognition' = NoRecognition
    /\ isRecording' = FALSE
    /\ recStarting' = recStarting \cup {[notesValue |-> closureNotes, origin |-> origin]}

\* startRecording after getUserMedia({audio}) resolved: baseNotesRef takes
\* the notesValue of the render the call was made in, and the recognizer is
\* started; atStart keeps the notes as they are at this moment
AudioGranted(p) ==
    /\ p \in recStarting
    /\ recStarting' = recStarting \ {p}
    /\ baseNotesRef' = p.notesValue
    /\ recognition' = [state |-> "started", transcript |-> <<>>, n |-> 0,
                        origin |-> p.origin, atStart |-> notesValue]
    /\ noteOp' = [op |-> "granted"]
    /\ UNCHANGED <<notesValue, notesValueRef, isRecording, recTimers>>
    /\ UNCHANGED <<appVars, parseVars, svcVars, camVars>>

\* getUserMedia({audio}) rejected: startRecording sets voiceError and returns
AudioDenied(p) ==
    /\ p \in recStarting
    /\ recStarting' = recStarting \ {p}
    /\ noteOp' = [op |-> "denied"]
    /\ UNCHANGED <<notesValue, notesValueRef, baseNotesRef, isRecording, recognition,
                   recTimers>>
    /\ UNCHANGED <<appVars, parseVars, svcVars, camVars>>

\* recognition.onstart
OnStart ==
    /\ recognition.state = "started"
    /\ recognition' = [recognition EXCEPT !.state = "listening"]
    /\ isRecording' = TRUE
    /\ noteOp' = [op |-> "onstart"]
    /\ UNCHANGED <<notesValue, notesValueRef, baseNotesRef, recTimers, recStarting>>
    /\ UNCHANGED <<appVars, parseVars, svcVars, camVars>>

\* recognition.onresult: the session transcript has grown by a piece
OnResult(piece) ==
    /\ recognition.state \in {"listening", "stopping"}
    /\ recognition.n < MaxResults
    /\ \E newText \in {NewText(baseNotesRef, recognition.transcript \o piece)} :
           /\ Len(newText) <= MaxNotesLen
           /\ notesValue' = IF newText # notesValueRef THEN newText ELSE notesValue
           /\ notesValueRef' = notesValue'
    /\ recognition' = [recognition EXCEPT !.transcript = @ \o piece, !.n = @ + 1]
    /\ noteOp' = [op |-> "result"]
    /\ UNCHANGED <<baseNotesRef, isRecording, recTimers, recStarting>>
    /\ UNCHANGED <<appVars, parseVars, svcVars, camVars>>

\* recognition.onend
OnEnd ==
    /\ recognition.state \in {"listening", "stopping"}
    /\ recognition' = NoRecognition
    /\ isRecording' = FALSE
    /\ noteOp' = [op |-> "onend"]
    /\ UNCHANGED <<notesValue, notesValueRef, baseNotesRef, recTimers, recStarting>>
    /\ UNCHANGED <<appVars, parseVars, svcVars, camVars>>

\* toggleRecording: stopRecording while recording, startRecording otherwise
ToggleRecording ==
    /\ recTimers = {}
    /\ recStarting = {}
    /\ IF isRecording
       THEN /\ recognition' = IF recognition.state = "none" THEN recognition
                               ELSE [recognition EXCEPT !.state = "stopping"]
            /\ isRecording' = (recognition.state = "none")
            /\ UNCHANGED recStarting
       ELSE StartRecording(notesValue, "toggle")
    /\ noteOp' = [op |-> "toggle"]
    /\ UNCHANGED <<notesValue, notesValueRef, baseNotesRef, recTimers>>
    /\ UNCHANGED <<appVars, parseVars, svcVars, camVars>>

\* handleClearNotes, from the 'Delete Notes' button (shown when there are
\* notes and no recording)
HandleClearNotes ==
    /\ notesValue # <<>>
    /\ ~isRecording
    /\ notesValue' = <<>>
    /\ notesValueRef' = <<>>
    /\ baseNotesRef' = <<>>
    /\ noteOp' = [op |-> "clear"]
    /\ UNCHANGED <<isRecording, recognition, recTimers, recStarting>>
    /\ UNCHANGED <<appVars, parseVars, svcVars, camVars>>

\* handleReRecord, from the 'Re-record' button: handleClearNotes, and a
\* timer whose callback calls the startRecording of this render
HandleReRecord ==
    /\ notesValue # <<>>
    /\ ~isRecording
    /\ recTimers = {}
    /\ recStarting = {}
    /\ notesValue' = <<>>
    /\ notesValueRef' = <<>>
    /\ baseNotesRef' = <<>>
    /\ recTimers' = recTimers \cup {[notesValue |-> notesValue]}
    /\ noteOp' = [op |-> "rerecord", old |-> notesValue]
    /\ UNCHANGED <<isRecording, recognition, recStarting>>
    /\ UNCHANGED <<appVars, parseVars, svcVars, camVars>>

\* the timer of handleReRecord fires
ReRecordTimer(t) ==
    /\ t \in recTimers
    /\ recTimers' = recTimers \ {t}
    /\ StartRecording(t.notesValue, "rerecord")
    /\ noteOp' = [op |-> "timer"]
    /\ UNCHANGED <<notesValue, notesValueRef, baseNotesRef>>
    /\ UNCHANGED <<appVars, parseVars, svcVars, camVars>>

NotesInit == AppIdle /\ ParseIdle /\ ExtIdle

NotesNext ==
    \/ \E v \in TypedTexts : HandleNotesChangeLocal(v)
    \/ ToggleRecording
    \/ \E p \in recStarting : AudioGranted(p)
    \/ \E p \in recStarting : AudioDenied(p)
    \/ OnStart
    \/ \E piece \in SpokenPieces : OnResult(piece)
    \/ OnEnd
    \/ HandleClearNotes
    \/ HandleReRecord
    \/ \E t \in recTimers : ReRecordTimer(t)

NotesSpec == NotesInit /\ [][NotesNext]_vars

(***************************************************************************)
(* ImageUploader: the camera and its streams                               *)
(* (src/components/ImageUploader.tsx).  A state change and the effect it   *)
(* triggers are one step; a getUserMedia call settles in a step of its own *)
(***************************************************************************)
MaxCameraStarts == 3   \* startCamera calls per behaviour

Resolutions == {"HD", "FHD", "4K"}

\* getTracks().forEach(t => t.stop()) on streamRef.current
StopTracks(live) == live \ {streamRef}

\* startCamera up to its await: the tracks of the current stream are
\* stopped (the ref keeps the stream) and getUserMedia is called
StartCamera(res) ==
    /\ camStarts < MaxCameraStarts
    /\ camStarts' = camStarts + 1
    /\ liveStreams' = StopTracks(liveStreams)
    /\ camPending' = camPending \cup {[call |-> camStarts + 1, resolution |-> res]}
    /\ UNCHANGED <<streamRef, obtained>>

\* stopCamera
StopCamera ==
    /\ liveStreams' = StopTracks(liveStreams)
    /\ streamRef' = 0
    /\ isCameraOpen' = FALSE

\* the 'Use Camera' button: setIsCameraOpen(true), and the effect calls
\* startCamera
OpenCamera ==
    /\ ~isCameraOpen
    /\ isCameraOpen' = TRUE
    /\ StartCamera(resolution)
    /\ camOp' = [op |-> "open"]
    /\ UNCHANGED resolution
    /\ UNCHANGED <<appVars, parseVars, svcVars, notesVars>>

\* the 'Close Camera' button: stopCamera, and the effect calls it again
CloseCamera ==
    /\ isCameraOpen
    /\ StopCamera
    /\ camOp' = [op |-> "close"]
    /\ UNCHANGED <<resolution, obtained, camPending, camStarts>>
    /\ UNCHANGED <<appVars, parseVars, svcVars, notesVars>>

\* handleCapture with a stream on the video element: the picture is taken
\* and stopCamera is called
HandleCapture ==
    /\ isCameraOpen
    /\ streamRef \in liveStreams
    /\ StopCamera
    /\ camOp' = [op |-> "capture"]
    /\ UNCHANGED <<resolution, obtained, camPending, camStarts>>
    /\ UNCHANGED <<appVars, parseVars, svcVars, notesVars>>

\* the resolution menu of the camera view (and resetCameraSettings):
\* setResolution(res), and the effect calls startCamera
SetResolution(res) ==
    /\ isCameraOpen
    /\ res # resolution
    /\ resolution' = res
    /\ StartCamera(res)
    /\ camOp' = [op |-> "resolution"]
    /\ UNCHANGED isCameraOpen
    /\ UNCHANGED <<appVars, parseVars, svcVars, notesVars>>

\* getUserMedia resolves: startCamera continues with streamRef.current =
\* stream
GetUserMediaResolved(c) ==
    /\ c \in camPending
    /\ camPending' = camPending \ {c}
    /\ obtained' = obtained + 1
    /\ streamRef' = obtained + 1
    /\ liveStreams' = liveStreams \cup {obtained + 1}
    /\ camOp' = [op |-> "resolved", call |-> c.call]
    /\ UNCHANGED <<isCameraOpen, resolution, camStarts>>
    /\ UNCHANGED <<appVars, parseVars, svcVars, notesVars>>

\* getUserMedia rejects: startCamera's catch calls setIsCameraOpen(false),
\* and when that changes the state the effect calls stopCamera
GetUserMediaRejected(c) ==
    /\ c \in camPending
    /\ camPending' = camPending \ {c}
    /\ IF isCameraOpen
       THEN StopCamera
       ELSE UNCHANGED <<liveStreams, streamRef, isCameraOpen>>
    /\ camOp' = [op |-> "rejected", call |-> c.call]
    /\ UNCHANGED <<resolution, obtained, camStarts>>
    /\ UNCHANGED <<appVars, parseVars, svcVars, notesVars>>

CameraInit == AppIdle /\ ParseIdle /\ ExtIdle

CameraNext ==
    \/ OpenCamera
    \/ CloseCamera
    \/ HandleCapture
    \/ \E res \in Resolutions : SetResolution(res)
    \/ \E c \in camPending : GetUserMediaResolved(c)
    \/ \E c \in camPending : GetUserMediaRejected(c)

CameraSpec == CameraInit /\ [][CameraNext]_vars

(***************************************************************************)
(* Claims about the App component (checked under Spec)                     *)
(***************************************************************************)

\* the list is ordered newest first
NewestFirst(h) == \A i, j \in 1..Len(h) : i < j => h[i].timestamp >= h[j].timestamp

\* every record that was created and is not in h is no newer than any record of h
MostRecentOf(h, all) ==
    \A r \in all \ Range(h) : \A i \in 1..Len(h) : r.timestamp <= h[i].timestamp

\* C1: in every reachable state the number of history records is at most
\* the configured history limit, also when the limit was changed while an
\* analysis request was pending.
C1_HistoryWithinLimit == Len(history) <= historyLimit

\* C2: FIFO retention: once more records were created than the limit N
\* allows (the limit never changed, nothing was deleted), exactly N records
\* remain, they are the N most recent by timestamp, newest first.
C2_FifoRetention ==
    (mounted /\ limitChanges = 0 /\ deletes = 0 /\ Cardinality(saved) > historyLimit)
        => /\ Len(history) = historyLimit
           /\ NewestFirst(history)
           /\ MostRecentOf(history, saved)

Settled == lastOp.op \in {"resolved", "rejected"}

\* C15: when the analysis call rejects, the analysis state becomes 'error'
\* with a null result and a message, the request is settled once and not
\* re-sent, and the history and its persisted copy are unchanged.
C15_RejectSurfacesOnce ==
    [][(lastOp'.op = "rejected" /\ lastOp' # lastOp) =>
          /\ analysis'.status = "error"
          /\ analysis'.result = NoResult
          /\ analysis'.error = TRUE
          /\ history' = history
          /\ lsHistory' = lsHistory
          /\ started' = started
          /\ pending' \subseteq pending
          /\ \A q \in pending' : q.rid # lastOp'.rid
          /\ \E q \in pending : q.rid = lastOp'.rid]_vars

\* C15 witness: a request was rejected while the history held records
C15_Witness ==
    /\ lastOp.op = "rejected"
    /\ analysis.status = "error"
    /\ Len(history) > 0
    /\ lsHistory # Absent

\* C16: when the analysis call resolves, the analysis state is 'success'
\* with that result, whatever happens while the record is saved (a write
\* that storage rejects, history data loaded from a corrupted store).
C16_OnlyNetworkErrors ==
    lastOp.op = "resolved" => analysis = AnalysisSuccess(lastOp.rid)

\* C17: when the first write of saveToHistory fails, whether the fallback
\* write succeeds or fails too, no exception leaves saveToHistory (the
\* state is 'success') and the retained history is exactly the one newest
\* record.
C17_QuotaFallback ==
    (lastOp.op = "resolved" /\ ~lastOp.ok1) =>
        /\ analysis = AnalysisSuccess(lastOp.rid)
        /\ Len(history) = 1
        /\ history[1].result = lastOp.rid

\* the part of C17 that the code keeps: the state is 'success', and a
\* fallback write that succeeds persists exactly the newest record
C17_FallbackPersistsNewest ==
    (lastOp.op = "resolved" /\ ~lastOp.ok1) =>
        /\ analysis = AnalysisSuccess(lastOp.rid)
        /\ (lastOp.ok2 /\ Len(history) > 1) => lsHistory = Stored(<<history[1]>>)

\* C18: once every request has settled, the displayed analysis state is
\* the outcome of the request started last: a result on display is never
\* that of an earlier request.
C18_LastRequestWins ==
    (Settled /\ pending = {} /\ analysis.status = "success")
        => analysis.result = started

\* C19: started on persisted values that are absent or corrupted, loading
\* yields an empty history list, and the next successful analysis is
\* retained as a history record.
C19_CorruptedStoreTolerated ==
    /\ lastOp.op = "mount" => (historyIsArray /\ history = <<>>)
    /\ (lastOp.op = "resolved" /\ lastOp.rid = 1) =>
           /\ historyIsArray
           /\ \E i \in 1..Len(history) : history[i].result = lastOp.rid

(***************************************************************************)
(* Claims about the parser (checked under ParseSpec)                       *)
(***************************************************************************)
SetMin(S) == CHOOSE x \in S : \A y \in S : x <= y

IncludesAnyCase(s, pat) == \E k \in 1..Len(s) : MatchAtAnyCase(s, pat, k)

\* where the markers occur in a text, whatever their letter case
StartPositions(t) == {i \in 1..Len(t) : MatchAtAnyCase(t, StartMarker, i)}
EndPositions(t) == {j \in 1..Len(t) : MatchAtAnyCase(t, EndMarker, j)}

\* the text holds a start marker and, after it, an end marker
HasMarkerPair(t) ==
    \E i \in StartPositions(t), j \in EndPositions(t) : j >= i + Len(StartMarker)

\* the first block: from the first start marker to the nearest end marker after it
BlockStart(t) == SetMin(StartPositions(t))
BlockEnd(t) == SetMin({j \in EndPositions(t) : j >= BlockStart(t) + Len(StartMarker)})
BlockInner(t) == SubSeq(t, BlockStart(t) + Len(StartMarker), BlockEnd(t) - 1)
OutsideBlock(t) ==
    SubSeq(t, 1, BlockStart(t) - 1) \o SubSeq(t, BlockEnd(t) + Len(EndMarker), Len(t))

\* the non-blank lines of the first block, trimmed
RECURSIVE TrimEach(_)
TrimEach(lines) ==
    IF lines = <<>> THEN <<>>
    ELSE IF Trim(Head(lines)) = <<>> THEN TrimEach(Tail(lines))
    ELSE <<Trim(Head(lines))>> \o TrimEach(Tail(lines))
BlockLines(t) == TrimEach(Split(Trim(BlockInner(t)), "\n"))

\* a criterion line: code A-E or Moles, a separator, content
IsCriterionLine(line) == LineMatch(line).ok
ContentOf(line) == LineMatch(line).rawContent
\* a line that starts with the keyword Moles and a separator
IsMolesLine(line) ==
    /\ MatchAtAnyCase(line, KwMoles, 1)
    /\ Len(line) > Len(KwMoles)
    /\ IsSeparator(line[Len(KwMoles) + 1])

Parsed == pphase = "parsed"
Located == Parsed /\ HasMarkerPair(text)

AllSentinel(p) ==
    /\ p.confidenceScore = NA
    /\ p.isicScore = NA
    /\ p.glasgowScore = NA
    /\ p.riskLevel = NA
    /\ p.hamPrediction = NA
    /\ p.hamConfidence = NA
    /\ p.dermFeatures = <<>>

\* C3: a text without the marker pair parses to no finding, every metric at
\* "N/A" with no feature, and a report body equal to the trimmed text.
C3_NoBlockDegrades ==
    (Parsed /\ ~HasMarkerPair(text))
        => /\ parsed.abcdeData = <<>>
           /\ AllSentinel(parsed)
           /\ parsed.cleanText = Trim(text)

\* C4: every criterion line whose content contains "suspicious" (any case)
\* yields a finding whose status is Suspicious: there are as many
\* Suspicious findings as such lines.
C4_SuspiciousWins ==
    Located => \E lines \in {BlockLines(text)} :
        Cardinality({i \in 1..Len(parsed.abcdeData) :
                        parsed.abcdeData[i].status = "Suspicious"})
      = Cardinality({k \in 1..Len(lines) :
                        /\ IsCriterionLine(lines[k])
                        /\ IncludesAnyCase(ContentOf(lines[k]), KwSuspicious)})

\* C5: the attention flag is true exactly when a finding is Suspicious, or
\* the parsed risk level is "High", or the report body contains an alarm
\* phrase.
RiskHigh == Chars("High")
C5_AttentionFlag ==
    Parsed =>
        (parsed.isGeneralSuspicious <=>
            \/ \E i \in 1..Len(parsed.abcdeData) : parsed.abcdeData[i].status = "Suspicious"
            \/ parsed.riskLevel = RiskHigh
            \/ IncludesAnyCase(parsed.cleanText, KwConsultADoctor)
            \/ IncludesAnyCase(parsed.cleanText, KwMelanoma)
            \/ IncludesAnyCase(parsed.cleanText, KwCarcinoma))

\* C6 (as claimed): when a block is located, the report body is the text
\* without the block and its markers, trimmed, and neither a marker nor a
\* line of the block remains in the report body.
C6_NoMarkerRemains ==
    Located =>
        /\ parsed.cleanText = Trim(OutsideBlock(text))
        /\ StartPositions(parsed.cleanText) = {}
        /\ EndPositions(parsed.cleanText) = {}
        /\ \E lines \in {BlockLines(text)} :
               \A k \in 1..Len(lines) : ~Includes(parsed.cleanText, lines[k])

\* C6 (amended): when a block is located, the report body is the text with
\* the first block (from the first start marker to the nearest end marker
\* after it) and its two markers removed, trimmed; text outside that
\* block, a further marker pair included, stays in the report body.
C6_FirstBlockRemoved ==
    Located => parsed.cleanText = Trim(OutsideBlock(text))

\* C6 witness: a block was located in a text that holds a second end
\* marker, and a non-empty report body remains
C6_Witness ==
    /\ Located
    /\ Cardinality({j \in EndPositions(text) : j > BlockEnd(text)}) >= 1
    /\ parsed.cleanText # <<>>

\* C7: no finding has a blank summary.
C7_SummaryNeverBlank ==
    Parsed =>
        \A i \in 1..Len(parsed.abcdeData) : Trim(parsed.abcdeData[i].summary) # <<>>

\* C8: the malformed line "B - " of a block yields a finding with code B,
\* status Unknown and the empty raw content as its summary.
MalformedB == Chars("B -")
C8_MalformedLineKept ==
    (Located /\ \E lines \in {BlockLines(text)} :
                    \E k \in 1..Len(lines) : lines[k] = MalformedB)
        => \E i \in 1..Len(parsed.abcdeData) :
              /\ parsed.abcdeData[i].letter = "B"
              /\ parsed.abcdeData[i].status = "Unknown"
              /\ parsed.abcdeData[i].summary = <<>>

\* C9: the example response parses to the one finding (A, Suspicious,
\* "uneven halves"), confidence "82%", ISIC score "6", every other metric
\* not available, and the report body "Rest of report.".
C9_ExampleScenario ==
    (Parsed /\ text = ExampleResponse)
        => /\ parsed.abcdeData = <<[letter |-> "A", title |-> "Asymmetry",
                                    status |-> "Suspicious",
                                    summary |-> Chars("uneven halves")]>>
           /\ parsed.confidenceScore = Chars("82%")
           /\ parsed.isicScore = Chars("6")
           /\ parsed.glasgowScore = NA
           /\ parsed.riskLevel = NA
           /\ parsed.hamPrediction = NA
           /\ parsed.hamConfidence = NA
           /\ parsed.dermFeatures = <<>>
           /\ parsed.cleanText = Chars("Rest of report.")

\* C9 witness: the example response has been parsed
C9_Witness == Parsed /\ text = ExampleResponse /\ Len(parsed.abcdeData) = 1

\* C10: every block line that starts with Moles and a separator yields a
\* finding with code M and title Moles, a finding has code M exactly when
\* its title is Moles, and only lines made of a single letter A-E, a
\* separator and content yield the other findings.
C10_MolesKeyword ==
    Located => \E lines \in {BlockLines(text)} :
        /\ Cardinality({i \in 1..Len(parsed.abcdeData) :
                           /\ parsed.abcdeData[i].letter = "M"
                           /\ parsed.abcdeData[i].title = "Moles"})
         = Cardinality({k \in 1..Len(lines) : IsMolesLine(lines[k])})
        /\ \A i \in 1..Len(parsed.abcdeData) :
               (parsed.abcdeData[i].letter = "M") <=> (parsed.abcdeData[i].title = "Moles")
        /\ Cardinality({i \in 1..Len(parsed.abcdeData) : parsed.abcdeData[i].letter # "M"})
            <= Cardinality({k \in 1..Len(lines) :
                               /\ IsCriterionLine(lines[k])
                               /\ ~IsMolesLine(lines[k])})

\* the number a metric string starts with (its leading run of digits)
LeadingInt(s) == ParseInt(SubSeq(s, 1, SkipDigits(s, 1) - 1))
\* a metric string that is not available, or not a number, or a number in lo..hi
WithinRange(s, lo, hi) ==
    \/ s = NA
    \/ s = <<>>
    \/ ~IsDigit(s[1])
    \/ LeadingInt(s) \in lo..hi
MetricsSaved == metrics.kind = "metrics"

\* C11: every numeric metric parsed from the block lies within its
\* documented range (confidence 0-100, ISIC risk score 1-10, Glasgow score
\* 0-10), in the metrics ResultDisplay shows and in the metrics
\* parseMetrics caches (where 0 stands for an absent metric): a value
\* outside the range is clamped to the nearest bound.
C11_MetricsClamped ==
    /\ Parsed =>
          /\ WithinRange(parsed.confidenceScore, 0, 100)
          /\ WithinRange(parsed.isicScore, 1, 10)
          /\ WithinRange(parsed.glasgowScore, 0, 10)
    /\ MetricsSaved =>
          /\ metrics.confidence \in 0..100
          /\ metrics.isicScore \in 0..10
          /\ metrics.glasgowScore \in 0..10

\* the block format: one '<Label>: <value>' line per available metric, one
\* '<code>: <status> - <summary>' line per finding, between the markers
LabelConfidenceScore == Chars("Confidence Score")
LabelIsicRiskScore == Chars("ISIC Risk Score")
LabelGlasgowScore == Chars("Glasgow Score")
LabelRiskLevel == Chars("Risk Level")
LabelHamPrediction == Chars("HAM10000 Prediction")
LabelHamConfidence == Chars("HAM10000 Confidence")
LabelDermFeatures == Chars("Dermatoscopic Features")
BlockOpen == Chars("~ABCDE_START~\n")
BlockClose == Chars("~ABCDE_END~")
ColonSpace == Chars(": ")
CommaSpace == Chars(", ")
SpaceDashSpace == Chars(" - ")
Newline == Chars("\n")

MetricLine(label, value) ==
    IF value = NA THEN <<>> ELSE label \o ColonSpace \o value \o Newline

RECURSIVE JoinFeatures(_)
JoinFeatures(fs) ==
    IF fs = <<>> THEN <<>>
    ELSE IF Len(fs) = 1 THEN Head(fs)
    ELSE Head(fs) \o CommaSpace \o JoinFeatures(Tail(fs))

FeatureLine(fs) ==
    IF fs = <<>> THEN <<>> ELSE LabelDermFeatures \o ColonSpace \o JoinFeatures(fs) \o Newline

CodeText(f) == IF f.letter = "M" THEN Chars("Moles") ELSE <<f.letter>>

RECURSIVE FindingLines(_)
FindingLines(fs) ==
    IF fs = <<>> THEN <<>>
    ELSE CodeText(Head(fs)) \o ColonSpace \o Chars(Head(fs).status) \o SpaceDashSpace
             \o Head(fs).summary \o Newline \o FindingLines(Tail(fs))

Serialize(p) ==
    BlockOpen
        \o MetricLine(LabelConfidenceScore, p.confidenceScore)
        \o MetricLine(LabelIsicRiskScore, p.isicScore)
        \o MetricLine(LabelGlasgowScore, p.glasgowScore)
        \o MetricLine(LabelRiskLevel, p.riskLevel)
        \o MetricLine(LabelHamPrediction, p.hamPrediction)
        \o MetricLine(LabelHamConfidence, p.hamConfidence)
        \o FeatureLine(p.dermFeatures)
        \o FindingLines(p.abcdeData)
        \o BlockClose

SameMetricsAndFindings(p, q) ==
    /\ q.confidenceScore = p.confidenceScore
    /\ q.isicScore = p.isicScore
    /\ q.glasgowScore = p.glasgowScore
    /\ q.riskLevel = p.riskLevel
    /\ q.hamPrediction = p.hamPrediction
    /\ q.hamConfidence = p.hamConfidence
    /\ q.dermFeatures = p.dermFeatures
    /\ q.abcdeData = p.abcdeData

C12_IdempotentNonBlank ==
    (Located /\ \A i \in 1..Len(parsed.abcdeData) : parsed.abcdeData[i].summary # <<>>)
        => \E q \in {ParseResponse(Serialize(parsed))} :
               SameMetricsAndFindings(parsed, q)

\* a non-empty run of digits
AllDigits(s) == s # <<>> /\ \A k \in 1..Len(s) : IsDigit(s[k])
\* a non-empty run of digits with an optional trailing '%'
DigitsPercent(s) ==
    \/ AllDigits(s)
    \/ (Len(s) >= 2 /\ s[Len(s)] = "%" /\ AllDigits(SubSeq(s, 1, Len(s) - 1)))

\* C13: a parsed confidence, ISIC risk score or Glasgow score is either
\* the run of digits extracted from its metric line (with the trailing '%'
\* for the confidence) or, when no digits can be extracted, still "N/A".
C13_MetricDigits ==
    Parsed =>
        /\ parsed.confidenceScore = NA \/ DigitsPercent(parsed.confidenceScore)
        /\ parsed.isicScore = NA \/ AllDigits(parsed.isicScore)
        /\ parsed.glasgowScore = NA \/ AllDigits(parsed.glasgowScore)

\* a line that one of the metric branches takes
HasMetricLabel(line) ==
    \/ MatchAtAnyCase(line, KwConfidenceScore, 1)
    \/ IncludesAnyCase(line, KwIsicRiskScore)
    \/ IncludesAnyCase(line, KwIsicScore)
    \/ IncludesAnyCase(line, KwGlasgowScore)
    \/ IncludesAnyCase(line, KwRiskLevel)
    \/ IncludesAnyCase(line, KwHamPrediction)
    \/ IncludesAnyCase(line, KwHamConfidence)
    \/ IncludesAnyCase(line, KwDermFeatures)

\* the upper-case code a criterion line stands for
CodeOfLine(line) ==
    LET a == SkipStars(line, 1)
    IN  IF MatchAtAnyCase(line, KwMoles, a) THEN "M" ELSE UpperChar(line[a])

\* the codes of the criterion lines of a block, in the order of the lines
RECURSIVE CodesInOrder(_)
CodesInOrder(lines) ==
    IF lines = <<>> THEN <<>>
    ELSE IF IsCriterionLine(Head(lines)) /\ ~HasMetricLabel(Head(lines))
         THEN <<CodeOfLine(Head(lines))>> \o CodesInOrder(Tail(lines))
         ELSE CodesInOrder(Tail(lines))

FindingCodes(fs) == SubSeq([i \in 1..Len(fs) |-> fs[i].letter], 1, Len(fs))

\* C14: the findings are in the order of the criterion lines of the block
\* (the lines that no metric label claims), one finding per such line,
\* every code is upper case, and a line whose code is not A-E or Moles
\* adds no finding and does not stop the parsing of the lines after it.
C14_FindingsInOrder ==
    Located => \E lines \in {BlockLines(text)} :
        /\ FindingCodes(parsed.abcdeData) = CodesInOrder(lines)
        /\ \A i \in 1..Len(parsed.abcdeData) :
               parsed.abcdeData[i].letter \in {"A", "B", "C", "D", "E", "M"}

\* C14 witness: a block with two findings or more in which a line with an
\* unrecognized code comes before a criterion line with a lower-case code
C14_Witness ==
    /\ Located
    /\ Len(parsed.abcdeData) >= 2
    /\ \E lines \in {BlockLines(text)} :
           \E k, m \in 1..Len(lines) :
               /\ k < m
               /\ ~IsCriterionLine(lines[k]) /\ ~HasMetricLabel(lines[k])
               /\ IsCriterionLine(lines[m]) /\ ~HasMetricLabel(lines[m])
               /\ lines[m][1] \in {"a", "b", "c", "d", "e"}

(***************************************************************************)
(* Claims about share links (checked under ShareSpec)                      *)
(***************************************************************************)
LinkLoaded == mounted /\ lastOp.op = "mount" /\ shareParam # NoShare

C21_UniqueIds ==
    \A i, j \in 1..Len(history) : i # j => history[i].id # history[j].id

\* C23: while an analysis request is pending the status is 'analyzing': no
\* user action available in the meantime (loading a history item, selecting
\* or clearing an image, changing settings) moves it to 'idle' or 'success'
\* before the request settles
C23_AnalyzingWhilePending ==
    [][(pending # {} /\ pending' = pending /\ analysis.status = "analyzing")
           => analysis'.status = "analyzing"]_vars

\* the ids of the records persisted under the history key
PersistedIds ==
    IF lsHistory.kind = "value" THEN {lsHistory.v[i].id : i \in 1..Len(lsHistory.v)} ELSE {}

HistoryIds == {history[i].id : i \in 1..Len(history)}

\* C24: once deleteHistoryItem has removed the record with a given id, no
\* later state of the history, in memory or persisted, contains a record
\* with that id, also when a request was pending at the deletion and saves
\* its record afterwards
C24_DeletedStaysDeleted ==
    \A id \in deletedIds : id \notin HistoryIds /\ id \notin PersistedIds

\* the cap has evicted nothing and will not: every record ever created fits
NoEviction ==
    mounted /\ limitChanges = 0 /\ historyLimit # NaN /\ Cardinality(saved) <= historyLimit

\* C25: every analysis that resolves creates exactly one record, at the head
\* of the history, and the record stays until the cap evicts it or the user
\* deletes it: the records of two overlapping analyses that both succeeded
\* are both in the history, cap permitting
C25_ResolvedRecordsKept ==
    /\ lastOp.op = "resolved" =>
           /\ Len(history) >= 1
           /\ history[1].result = lastOp.rid
           /\ Cardinality({i \in 1..Len(history) : history[i].result = lastOp.rid}) = 1
    /\ NoEviction =>
           \A r \in saved : (r.result > NoResult /\ r.id \notin deletedIds)
                                => \E i \in 1..Len(history) : history[i] = r

\* C26: deleteHistoryItem(id) removes exactly the records whose id is id:
\* the other records remain in their order, the history limit and the
\* analysis state are unchanged, and the persisted history equals the new
\* in-memory list
C26_DeleteFrame ==
    [][deletes' = deletes + 1 =>
           /\ history' = SelectSeq(history, LAMBDA r : r.id # lastOp'.id)
           /\ historyLimit' = historyLimit
           /\ analysis' = analysis
           /\ lsHistory' = Stored(history')]_vars

\* the frame of deleteHistoryItem apart from the persisted copy
C26_DeleteFrameInMemory ==
    [][deletes' = deletes + 1 =>
           /\ history' = SelectSeq(history, LAMBDA r : r.id # lastOp'.id)
           /\ historyLimit' = historyLimit
           /\ analysis' = analysis
           /\ (lastOp'.ok => lsHistory' = Stored(history'))]_vars

\* the array persisted under the history key; nothing stored reads as empty
PersistedHistory == IF lsHistory.kind = "value" THEN lsHistory.v ELSE <<>>

\* C27: after every history mutation performed by the app (saving a record,
\* deleting a record, changing the limit) and after load-on-mount, the array
\* persisted under the history key equals the in-memory history list, also
\* when a storage write fails
C27_PersistedEqualsMemory ==
    lastOp.op \in {"mount", "resolved", "delete", "limit"} => PersistedHistory = history

(***************************************************************************)
(* Claims about storageService's lesion profiles (checked under            *)
(* StorageSpec)                                                            *)
(***************************************************************************)
\* the records of a stored history that reference a profile, in stored order
ReferencingRecords(stored, id) ==
    IF stored.kind = "value" THEN FilterByMole(stored.v, id) ELSE <<>>

\* C22: deleting a lesion profile removes exactly the profile with that id
\* from the profile list, keeps the other profiles in their order, and leaves
\* the stored analysis history unchanged: the records that reference the
\* deleted id remain, and getMoleHistory for that id returns what it
\* returned before, which is all of them
C22_DeleteMoleKeepsHistory ==
    svcOp.op = "deleteMole" =>
        /\ GetMoles = SelectSeq(svcOp.moles, LAMBDA m : m.id # svcOp.id)
        /\ \A i \in 1..Len(GetMoles) : GetMoles[i].id # svcOp.id
        /\ svcHistory = svcOp.history
        /\ GetMoleHistory(svcOp.id) = svcOp.moleHistory
        /\ Len(GetMoleHistory(svcOp.id)) = Len(ReferencingRecords(svcOp.history, svcOp.id))
        /\ \A i \in 1..Len(ReferencingRecords(svcOp.history, svcOp.id)) :
               \E j \in 1..Len(GetMoleHistory(svcOp.id)) :
                   GetMoleHistory(svcOp.id)[j] = ReferencingRecords(svcOp.history, svcOp.id)[i]

\* a profile with two records has been deleted while another profile remains
C22_Witness ==
    /\ svcOp.op = "deleteMole"
    /\ Len(svcOp.moles) = 2
    /\ Len(GetMoles) = 1
    /\ Len(GetMoleHistory(svcOp.id)) = 2

(***************************************************************************)
(* Claims about the metrics cached with a record (checked under ParseSpec) *)
(***************************************************************************)
\* C28: the metrics cached with a history record report no value for a
\* metric that is absent from the response text: when the label of the ISIC
\* score, the Glasgow score, the confidence or the risk level occurs nowhere
\* in the text, the cached field is neither the number 0 nor the label 'Low'
C28_AbsentMetricNotReported ==
    MetricsSaved =>
        /\ ~IncludesAnyCase(text, KwIsicRiskScore) => metrics.isicScore # 0
        /\ ~IncludesAnyCase(text, KwGlasgowScore) => metrics.glasgowScore # 0
        /\ ~IncludesAnyCase(text, KwConfidenceScore) => metrics.confidence # 0
        /\ ~IncludesAnyCase(text, KwRiskLevel) => metrics.riskLevel # DefaultRiskLevel

(***************************************************************************)
(* Claims about the dictation of patient notes (checked under NotesSpec)   *)
(***************************************************************************)
\* a speech result has just arrived in a session that 'Re-record' started
\* on notes that were still empty
ReRecordedResult ==
    /\ noteOp.op = "result"
    /\ recognition.origin = "rerecord"
    /\ recognition.atStart = <<>>

\* C29: 'Re-record' clears the existing notes before the new dictation:
\* when a speech result of the new session arrives, the notes hold the text
\* dictated in that session and nothing of the notes that existed before
C29_ReRecordReplacesNotes ==
    ReRecordedResult => notesValue = recognition.transcript

(***************************************************************************)
(* Claims about the camera streams (checked under CameraSpec)              *)
(***************************************************************************)
\* C30: camera streams are always released: whenever the camera view is
\* closed and no camera-start request is pending, no live stream is held,
\* and every stream ever obtained other than the current one has had its
\* tracks stopped, for every interleaving of open, close, resolution change
\* and completion of the pending getUserMedia calls
C30_StreamsReleased ==
    /\ (~isCameraOpen /\ camPending = {}) => liveStreams = {}
    /\ liveStreams \subseteq {streamRef}
====
